---- MODULE Spec2Model ----
(***************************************************************************)
(* A model of the untypedconst analysis pass (src/untypedconst.go): the    *)
(* recursive classifier isUntypedConstExpr, the reporting policy           *)
(* checkAndReport, and the per-node handlers that run() dispatches to.     *)
(*                                                                         *)
(* The host's collaborators are modelled by the facts they supply:         *)
(*   - an expression is a record tagged with its ast node kind;            *)
(*   - TypesInfo.Types[expr] is carried by a candidate as Value (is a      *)
(*     constant value present) and Type;                                   *)
(*   - typeutil.Callee(info, call) is carried by a call as Callee (the     *)
(*     kind of object resolved, "Nil" when none) and Fun (its name);       *)
(*   - pass.Pkg is a record of the package path and its top-level scope.   *)
(***************************************************************************)
EXTENDS Integers, Sequences, FiniteSets, TLC

VARIABLES pass, pc, expr, ret, arg, node, handed, before, diags, logs, visited, fed, offset

vars == <<pass, pc, expr, ret, arg, node, handed, before, diags, logs, visited, fed, offset>>

-----------------------------------------------------------------------------
(* Bounds of the model.                                                    *)

\* how many operators, calls or parentheses are wrapped around a leaf
MaxWraps == 2
\* how many nodes one traversal visits
MaxNodes == 2
\* how many candidate expressions the visited nodes hold in total
MaxCands == 3

-----------------------------------------------------------------------------
(* go/types: types and their String().                                     *)

Basic(name, untyped) == [kind |-> "Basic", Name |-> name, Untyped |-> untyped]
Named(pkg, name, underlying) ==
    [kind |-> "Named", Pkg |-> pkg, Name |-> name, Underlying |-> underlying]
TypeParam(name) == [kind |-> "TypeParam", Name |-> name]

\* types.Type.String(): a basic type prints its name, a type parameter its
\* name, a named type its package path, a dot and its name.
TypeString(t) ==
    IF t.kind = "Named" THEN t.Pkg \o "." \o t.Name ELSE t.Name

\* strings.HasPrefix
HasPrefix(s, prefix) ==
    /\ Len(s) >= Len(prefix)
    /\ SubSeq(s, 1, Len(prefix)) = prefix

UpperLetters ==
    {"A", "B", "C", "D", "E", "F", "G", "H", "I", "J", "K", "L", "M",
     "N", "O", "P", "Q", "R", "S", "T", "U", "V", "W", "X", "Y", "Z"}

\* types.Object.Exported(): the name starts with an upper-case letter.
Exported(name) == Len(name) > 0 /\ SubSeq(name, 1, 1) \in UpperLetters

-----------------------------------------------------------------------------
(* go/ast: expressions.                                                    *)

BasicLit == [kind |-> "BasicLit"]
Ident(name) == [kind |-> "Ident", Name |-> name]
ParenExpr(x) == [kind |-> "ParenExpr", X |-> x]
UnaryExpr(op, x) == [kind |-> "UnaryExpr", Op |-> op, X |-> x]
BinaryExpr(op, x, y) == [kind |-> "BinaryExpr", Op |-> op, X |-> x, Y |-> y]
CallExpr(fun, callee, args) ==
    [kind |-> "CallExpr", Fun |-> fun, Callee |-> callee, Args |-> args]
\* a qualified identifier such as math.MaxInt8
SelectorExpr == [kind |-> "SelectorExpr"]

RECURSIVE Width(_)
RECURSIVE WidthOfList(_)
\* the number of source characters an expression spans: End() - Pos()
Width(e) ==
    CASE e.kind = "BasicLit"     -> 1
      [] e.kind = "Ident"        -> Len(e.Name)
      [] e.kind = "SelectorExpr" -> 12
      [] e.kind = "ParenExpr"    -> 2 + Width(e.X)
      [] e.kind = "UnaryExpr"    -> Len(e.Op) + Width(e.X)
      [] e.kind = "BinaryExpr"   -> Width(e.X) + Len(e.Op) + Width(e.Y)
      [] e.kind = "CallExpr"     -> Len(e.Fun) + 2 + WidthOfList(e.Args)
WidthOfList(es) ==
    IF es = <<>> THEN 0
    ELSE Width(Head(es)) + (IF Tail(es) = <<>> THEN 0 ELSE 1 + WidthOfList(Tail(es)))

-----------------------------------------------------------------------------
(* The package under analysis: pass.Pkg.Path() and pass.Pkg.Scope().       *)

Const(t) == [obj |-> "Const", Type |-> t]
VarObj == [obj |-> "Var"]
NilObj == [obj |-> "Nil"]

\* Top-level declarations of the analysed package:
\*   const U = 1                  (untyped)
\*   const K Meters = 1           (typed, the package's own named type)
\*   const I int = 1              (typed, basic)
\*   const X untypedlib.Unit = 1  (typed, a named type of an imported package)
\*   var v int
\* Any other name (a constant local to a function, a dot-imported one) is not
\* found in the scope.
ScopeLookup(path, name) ==
    CASE name = "U" -> Const(Basic("untyped int", TRUE))
      [] name = "K" -> Const(Named(path, "Meters", "Basic"))
      [] name = "I" -> Const(Basic("int", FALSE))
      [] name = "X" -> Const(Named("untypedlib", "Unit", "Basic"))
      [] name = "v" -> VarObj
      [] OTHER      -> NilObj

PkgPaths == {"a", "b"}
Passes == {[Path |-> p] : p \in PkgPaths}

-----------------------------------------------------------------------------
(* The lookup tables.                                                      *)

constIdentNames == {"true", "false", "iota"}

comparisonTokensNoGeq == {"==", "!=", "<", "<=", ">"}
comparisonTokens == {"==", "!=", "<", "<=", ">", ">="}

builtInsAboutComplex == {"complex", "real", "imag"}

-----------------------------------------------------------------------------
(* The classifier.                                                         *)

unwrapOneParen(e) == IF e.kind = "ParenExpr" THEN e.X ELSE e

RECURSIVE unwrapParens(_)
unwrapParens(e) ==
    IF e.kind = "ParenExpr" THEN unwrapParens(e.X) ELSE e

\* log.Printf("unexpected node type: %T", e)
UnexpectedNode(e) == "unexpected node type: *ast." \o e.kind

Answer(b) == [ret |-> b, logged |-> <<>>]

\* case *ast.Ident
identCase(p, e) ==
    IF e.Name \in constIdentNames THEN Answer(TRUE)
    ELSE LET cnst == ScopeLookup(p.Path, e.Name) IN
         IF cnst.obj # "Const" THEN Answer(FALSE)
         ELSE Answer(HasPrefix(TypeString(cnst.Type), "untyped"))

\* a && b as the code evaluates it: b only when a is true
andThen(a, b) ==
    IF a.ret THEN [ret |-> b.ret, logged |-> a.logged \o b.logged] ELSE a

\* typeutil.Callee(...).(*types.Builtin) succeeds and the name is in the table
calleeIsComplexBuiltinByName(e) == e.Fun \in builtInsAboutComplex
calleeIsComplexBuiltin(e) ==
    e.Callee = "Builtin" /\ e.Fun \in builtInsAboutComplex

\* default: log.Printf(...); return false
defaultCaseUntyped(e) == [ret |-> TRUE, logged |-> <<UnexpectedNode(e)>>]
defaultCase(e) == [ret |-> FALSE, logged |-> <<UnexpectedNode(e)>>]

RECURSIVE isUntypedConstExpr(_, _)
RECURSIVE allArgsUntyped(_, _)

\* The result of isUntypedConstExpr(pass, expr) and the lines it logs.
isUntypedConstExpr(p, e) ==
    LET unwrapped == unwrapParens(e) IN
    CASE unwrapped.kind = "BasicLit" -> Answer(TRUE)
      [] unwrapped.kind = "Ident" -> identCase(p, unwrapped)
      [] unwrapped.kind = "UnaryExpr" -> isUntypedConstExpr(p, unwrapped.X)
      [] unwrapped.kind = "BinaryExpr" ->
            IF unwrapped.Op \in comparisonTokens THEN Answer(TRUE)
            ELSE andThen(isUntypedConstExpr(p, unwrapped.X),
                         isUntypedConstExpr(p, unwrapped.Y))
      [] unwrapped.kind = "CallExpr" ->
            IF ~calleeIsComplexBuiltin(unwrapped) THEN Answer(FALSE)
            ELSE allArgsUntyped(p, unwrapped.Args)
      [] OTHER -> defaultCase(unwrapped)

\* for _, arg := range e.Args { if !isUntypedConstExpr(pass, arg) { return false } }; return true
allArgsUntyped(p, args) ==
    IF args = <<>> THEN Answer(TRUE)
    ELSE andThen(isUntypedConstExpr(p, Head(args)), allArgsUntyped(p, Tail(args)))

-----------------------------------------------------------------------------
(* Inputs: the expressions the classifier is applied to.                   *)

IdentNames == {"true", "false", "iota", "U", "K", "I", "X", "v", "loc"}
Leaves == {BasicLit, SelectorExpr} \cup {Ident(n) : n \in IdentNames}
\* the other operand or argument of a wrapped expression: 5 or K
Siblings == {BasicLit, Ident("K")}

ArithmeticTokens == {"+", "<<"}
ComparisonOperators == {"==", "!=", "<", "<=", ">", ">="}

Wrappings(e) ==
    {ParenExpr(e), UnaryExpr("-", e)}
    \cup {BinaryExpr(op, e, s) : op \in ComparisonOperators \cup ArithmeticTokens, s \in Siblings}
    \cup {BinaryExpr(op, s, e) : op \in ArithmeticTokens, s \in Siblings}
    \cup {CallExpr("complex", "Builtin", <<e, s>>) : s \in Siblings}
    \cup {CallExpr("complex", "Builtin", <<s, e>>) : s \in Siblings}
    \cup {CallExpr("complex", "Func", <<e, BasicLit>>)}
    \cup {CallExpr(f, "Builtin", <<e>>) : f \in {"real", "imag", "len"}}
    \cup {CallExpr("Meters", "Nil", <<e>>)}

\* Meters(5) + 3
MetersPlus3 == BinaryExpr("+", CallExpr("Meters", "Nil", <<BasicLit>>), BasicLit)

RECURSIVE Depth(_)
\* how many wrappings lie around the innermost leaf of an expression
Depth(e) ==
    CASE e.kind \in {"ParenExpr", "UnaryExpr"} -> 1 + Depth(e.X)
      [] e.kind = "BinaryExpr" ->
            1 + (IF Depth(e.X) > Depth(e.Y) THEN Depth(e.X) ELSE Depth(e.Y))
      [] e.kind = "CallExpr" ->
            1 + (IF Len(e.Args) = 1 \/ Depth(e.Args[1]) > Depth(e.Args[2])
                 THEN Depth(e.Args[1]) ELSE Depth(e.Args[2]))
      [] OTHER -> 0

-----------------------------------------------------------------------------
(* The classifier applied to one expression.                               *)

NoExpr == [kind |-> "None"]
NoArg == [kind |-> "None"]
NoNode == [kind |-> "None"]
\* how many diagnostics, log lines and checkAndReport calls there were
Mark(d, l, h) == [diags |-> d, logs |-> l, handed |-> h]

InitClassify ==
    /\ pass \in Passes
    /\ expr \in Leaves
    /\ pc = "parse"
    /\ ret = Answer(FALSE)
    /\ arg = NoArg
    /\ node = NoNode
    /\ handed = <<>>
    /\ before = Mark(0, 0, 0)
    /\ diags = <<>>
    /\ logs = <<>>
    /\ visited = 0
    /\ fed = 0
    /\ offset = 0

\* The expression under classification is any expression of the bounded
\* grammar: the parser wraps it once more.
Wrap ==
    /\ pc = "parse"
    /\ Depth(expr) < MaxWraps
    /\ expr' \in Wrappings(expr)
    /\ UNCHANGED <<pass, pc, ret, arg, node, handed, before, diags, logs, visited, fed, offset>>

Classify ==
    /\ pc = "parse"
    /\ ret' = isUntypedConstExpr(pass, expr)
    /\ logs' = logs \o ret'.logged
    /\ pc' = "classified"
    /\ UNCHANGED <<pass, expr, arg, node, handed, before, diags, visited, fed, offset>>

NextClassify == Wrap \/ Classify

SpecClassify == InitClassify /\ [][NextClassify]_vars

-----------------------------------------------------------------------------
(* The reporting policy.                                                   *)

\* A candidate is an expression node with its position and the facts
\* pass.TypesInfo.Types holds for it: whether a constant value is present,
\* and its type.
Candidate(x, pos, value, type) == [X |-> x, Pos |-> pos, Value |-> value, Type |-> type]

\* expr.Pos() and expr.End()
Pos(c) == c.Pos
End(c) == c.Pos + Width(c.X)

MsgCallArg == "passing naked literal to parameter of defined type %q"
MsgReturn == "returning naked literal as Defiend Type %q"
MsgSend == "sending naked literal to channel of Defiend Type %q"
MsgKey == "using naked literal as composite literal's element key of defined type %q"
MsgValue == "using naked literal as composite literal's element value of defined type %q"
MsgElement == "using naked literal as composite literal's element of defined type %q"
MsgIndex == "using naked literal for indexing the value whose key type is defined type %q"
Templates == {MsgCallArg, MsgReturn, MsgSend, MsgKey, MsgValue, MsgElement, MsgIndex}

\* fmt.Sprintf with a format holding one %q verb and a string free of
\* characters that %q escapes: the verb is replaced by the quoted string.
VerbAt(format) ==
    CHOOSE i \in 1..(Len(format) - 1) : SubSeq(format, i, i + 1) = "%q"
Sprintf(format, a) ==
    SubSeq(format, 1, VerbAt(format) - 1) \o "\"" \o a \o "\""
        \o SubSeq(format, VerbAt(format) + 2, Len(format))

Diagnostic(pos, end, message) == [Pos |-> pos, End |-> end, Message |-> message]

Silent(logged) == [diags |-> <<>>, logged |-> logged]

\* namedTyp.Obj().Exported() || namedTyp.Obj().Pkg().Path() == pass.Pkg.Path()
visibleOnlyIfExported(p, t) == Exported(t.Name)
visible(p, t) == Exported(t.Name) \/ t.Pkg = p.Path

\* inferredType.(*types.Named) succeeds
isNamed(t) == t.kind = "Named"

\* inferredType.Underlying().(*types.Basic) succeeds
isUnderlyingBasicAlways(t) == TRUE
isUnderlyingBasic(t) ==
    IF t.kind = "Named" THEN t.Underlying = "Basic" ELSE t.kind = "Basic"

\* the diagnostic checkAndReport builds
reportInnerRange(c, msgfmt) ==
    LET inner == unwrapParens(c.X) IN
    Diagnostic(Pos(c) + (Width(c.X) - Width(inner)) \div 2,
               End(c) - (Width(c.X) - Width(inner)) \div 2,
               Sprintf(msgfmt, TypeString(c.Type)))
report(c, msgfmt) ==
    Diagnostic(Pos(c), End(c), Sprintf(msgfmt, TypeString(c.Type)))

\* What checkAndReport(pass, expr, msgfmt) hands to pass.Report, and what the
\* classifier logs on the way.
checkAndReport(p, c, msgfmt) ==
    IF ~c.Value THEN Silent(<<>>)
    ELSE LET u == isUntypedConstExpr(p, c.X) IN
         IF ~u.ret THEN Silent(u.logged)
         ELSE IF ~isNamed(c.Type) THEN Silent(u.logged)
         ELSE IF ~isUnderlyingBasic(c.Type) THEN Silent(u.logged)
         ELSE IF visible(p, c.Type)
              THEN [diags |-> <<report(c, msgfmt)>>, logged |-> u.logged]
              ELSE Silent(u.logged)

-----------------------------------------------------------------------------
(* The reporting policy applied to one candidate.                          *)

TypeNames == {"Meters", "meters"}
NamedTypes ==
    {Named(pkg, name, u) : pkg \in PkgPaths, name \in TypeNames, u \in {"Basic", "Struct"}}
Types == NamedTypes \cup {Basic("int", FALSE), TypeParam("T")}

CandExprs ==
    Leaves \cup
    { ParenExpr(BasicLit),
      ParenExpr(ParenExpr(Ident("U"))),
      UnaryExpr("-", BasicLit),
      BinaryExpr(">=", Ident("K"), Ident("K")),
      BinaryExpr("+", BasicLit, Ident("U")),
      MetersPlus3,
      CallExpr("Meters", "Nil", <<BasicLit>>),
      CallExpr("complex", "Builtin", <<BasicLit, BasicLit>>),
      ParenExpr(SelectorExpr) }

Candidates ==
    {Candidate(x, pos, value, type) :
        x \in CandExprs, pos \in {1, 40}, value \in BOOLEAN, type \in Types}

InitReport ==
    /\ pass \in Passes
    /\ arg \in [cand : Candidates, msgfmt : Templates]
    /\ pc = "check"
    /\ expr = NoExpr
    /\ ret = Answer(FALSE)
    /\ node = NoNode
    /\ handed = <<>>
    /\ before = Mark(0, 0, 0)
    /\ diags = <<>>
    /\ logs = <<>>
    /\ visited = 0
    /\ fed = 0
    /\ offset = 0

CheckAndReport ==
    /\ pc = "check"
    /\ LET r == checkAndReport(pass, arg.cand, arg.msgfmt) IN
       /\ diags' = diags \o r.diags
       /\ logs' = logs \o r.logged
    /\ handed' = <<arg>>
    /\ pc' = "checked"
    /\ UNCHANGED <<pass, expr, ret, arg, node, before, visited, fed, offset>>

SpecReport == InitReport /\ [][CheckAndReport]_vars

-----------------------------------------------------------------------------
(* Claims about the classifier, checked under SpecClassify.                *)

Classified == pc = "classified"
Untyped(e) == isUntypedConstExpr(pass, e).ret
\* the expression the classifier dispatches on
Shape == unwrapParens(expr)

\* C3: a binary expression with one of the operators ==, !=, <, <=, >, >= is
\* classified untyped whatever its operands are; with any other operator it is
\* classified untyped exactly when both operands are; so Meters(5) + 3 is
\* classified typed and, returned as a Meters, yields no diagnostic.
MetersPlus3Returned(at) ==
    [X |-> MetersPlus3, Pos |-> at, Value |-> TRUE,
     Type |-> [kind |-> "Named", Pkg |-> pass.Path, Name |-> "Meters", Underlying |-> "Basic"]]
BinaryOperatorRule ==
    /\ (Classified /\ Shape.kind = "BinaryExpr") =>
            ret.ret = (\/ Shape.Op \in {"==", "!=", "<", "<=", ">", ">="}
                       \/ (Untyped(Shape.X) /\ Untyped(Shape.Y)))
    /\ (Classified /\ expr = MetersPlus3) =>
            /\ ~ret.ret
            /\ checkAndReport(pass, MetersPlus3Returned(1), MsgReturn).diags = <<>>

\* a comparison of two explicitly typed constants, K >= K, classified untyped
BinaryOperatorWitness ==
    /\ Classified
    /\ expr = BinaryExpr(">=", Ident("K"), Ident("K"))
    /\ ~Untyped(Ident("K"))
    /\ ret.ret

\* C4: a call is classified untyped exactly when its callee is one of the
\* builtins complex, real, imag and every argument is classified untyped; any
\* other call (a conversion, another builtin, a declared function) is typed.
CallRule ==
    (Classified /\ Shape.kind = "CallExpr") =>
        ret.ret = (/\ Shape.Callee = "Builtin"
                   /\ Shape.Fun \in {"complex", "real", "imag"}
                   /\ \A i \in 1..Len(Shape.Args) : Untyped(Shape.Args[i]))

\* len(5): a builtin outside the three, with an untyped argument, is typed
CallRuleWitness ==
    /\ Classified
    /\ expr = CallExpr("len", "Builtin", <<BasicLit>>)
    /\ ~ret.ret

\* C5: an identifier named true, false or iota is classified untyped; any
\* other identifier is classified untyped exactly when the package's top-level
\* scope resolves it to a constant whose declared type is an untyped type.
IdentifierRule ==
    (Classified /\ Shape.kind = "Ident") =>
        ret.ret = (\/ Shape.Name \in {"true", "false", "iota"}
                   \/ LET o == ScopeLookup(pass.Path, Shape.Name) IN
                      /\ o.obj = "Const"
                      /\ o.Type.kind = "Basic"
                      /\ o.Type.Untyped)

\* C10: a unary operator and any number of grouping parentheses leave the
\* classification unchanged, at the top level and at every operand or argument
\* position.
Parens2(e) == ParenExpr(ParenExpr(e))
UnaryAndParensTransparent ==
    Classified =>
        /\ expr.kind \in {"UnaryExpr", "ParenExpr"} => ret.ret = Untyped(expr.X)
        /\ Untyped(UnaryExpr("-", expr)) = ret.ret
        /\ Untyped(ParenExpr(expr)) = ret.ret
        /\ Untyped(Parens2(expr)) = ret.ret
        /\ \A s \in Siblings :
              /\ Untyped(BinaryExpr("+", Parens2(expr), s)) = Untyped(BinaryExpr("+", expr, s))
              /\ Untyped(BinaryExpr("+", s, Parens2(expr))) = Untyped(BinaryExpr("+", s, expr))
              /\ Untyped(BinaryExpr("+", UnaryExpr("-", expr), s)) = Untyped(BinaryExpr("+", expr, s))
              /\ Untyped(CallExpr("complex", "Builtin", <<s, Parens2(expr)>>))
                   = Untyped(CallExpr("complex", "Builtin", <<s, expr>>))
              /\ Untyped(CallExpr("real", "Builtin", <<UnaryExpr("-", Parens2(expr))>>))
                   = ret.ret

\* -((U)): an untyped constant under a unary operator and two parentheses
UnaryAndParensWitness ==
    /\ Classified
    /\ expr = UnaryExpr("-", ParenExpr(Ident("U")))
    /\ ret.ret
    /\ Untyped(Parens2(expr))

-----------------------------------------------------------------------------
(* Claims about the reporting policy, checked under SpecReport.            *)

Checked == pc = "checked"

\* C1: a candidate with a constant value, classified untyped, whose type is a
\* named type over a scalar primitive yields a diagnostic exactly when the type
\* is exported or declared in the package under analysis.
VisibilityGate ==
    LET c == arg.cand IN
    (/\ Checked
     /\ c.Value
     /\ Untyped(c.X)
     /\ c.Type.kind = "Named"
     /\ c.Type.Underlying = "Basic") =>
        ((diags # <<>>) <=> (\/ c.Type.Name \in {"Meters"}
                            \/ c.Type.Pkg = pass.Path))

\* an unexported type of the analysed package is still reported ...
VisibilityGateWitness ==
    /\ Checked
    /\ arg.cand.Value
    /\ arg.cand.X = BasicLit
    /\ arg.cand.Type = Named(pass.Path, "meters", "Basic")
    /\ Len(diags) = 1

\* C2: a candidate whose type is not a named type, or is a named type over
\* something other than a scalar primitive, yields no diagnostic.
OnlyNamedScalarTypes ==
    LET t == arg.cand.Type IN
    (Checked /\ (t.kind # "Named" \/ t.Underlying # "Basic")) => diags = <<>>

\* an untyped literal with a constant value whose type is the exported struct
\* type of the analysed package passes every other filter
OnlyNamedScalarTypesWitness ==
    /\ Checked
    /\ arg.cand.Value
    /\ Untyped(arg.cand.X)
    /\ arg.cand.Type = Named(pass.Path, "Meters", "Struct")
    /\ diags = <<>>

-----------------------------------------------------------------------------
(* The site dispatcher: run() and the handlers of the five node kinds.     *)

Call(c, msgfmt) == [cand |-> c, msgfmt |-> msgfmt]

processCallExprAnyCallee(p, call) ==
    [i \in 1..Len(call.Args) |-> Call(call.Args[i], MsgCallArg)]
\* fn, _ := typeutil.Callee(pass.TypesInfo, call).(*types.Func)
processCallExpr(p, call) ==
    IF call.Callee # "Func" THEN <<>>
    ELSE [i \in 1..Len(call.Args) |-> Call(call.Args[i], MsgCallArg)]

processReturnStmt(p, r) ==
    [i \in 1..Len(r.Results) |-> Call(r.Results[i], MsgReturn)]

processSendStmt(p, send) == <<Call(send.Value, MsgSend)>>

RECURSIVE eltsKeysOnly(_)
eltsKeysOnly(elts) ==
    IF elts = <<>> THEN <<>>
    ELSE LET e == Head(elts) IN
         (IF e.kind = "KeyValueExpr"
          THEN <<Call(e.Key, MsgKey)>>
          ELSE <<Call(e.E, MsgElement)>>) \o eltsKeysOnly(Tail(elts))
RECURSIVE elts(_)
elts(es) ==
    IF es = <<>> THEN <<>>
    ELSE LET e == Head(es) IN
         (IF e.kind = "KeyValueExpr"
          THEN <<Call(e.Key, MsgKey), Call(e.Value, MsgValue)>>
          ELSE <<Call(e.E, MsgElement)>>) \o elts(Tail(es))

processCompositeLitKeysOnly(p, comp) == eltsKeysOnly(comp.Elts)
processCompositeLit(p, comp) == elts(comp.Elts)

processIndexExpr(p, idx) == <<Call(idx.Index, MsgIndex)>>

RECURSIVE checks(_, _)
\* the calls of checkAndReport a handler makes, one after the other
checks(p, calls) ==
    IF calls = <<>> THEN Silent(<<>>)
    ELSE LET r == checkAndReport(p, Head(calls).cand, Head(calls).msgfmt)
             rest == checks(p, Tail(calls))
         IN [diags |-> r.diags \o rest.diags, logged |-> r.logged \o rest.logged]

-----------------------------------------------------------------------------
(* Inputs: the nodes of the file under analysis.                           *)

\* The candidate expressions of the file, with their facts: the literal 5,
\* the qualified constant lib.Max8 and the function-local constant loc, each
\* of the package's own type Meters, and (5) of its unexported type meters.
FileCands(p) ==
    {Candidate(x, 0, TRUE, Named(p.Path, "Meters", "Basic")) :
        x \in {BasicLit, SelectorExpr, Ident("loc")}}
    \cup {Candidate(ParenExpr(BasicLit), 0, TRUE, Named(p.Path, "meters", "Basic"))}

At(c, pos) == [c EXCEPT !.Pos = pos]

RECURSIVE Place(_, _)
\* a list of expressions laid out from pos on, two characters between them
Place(cs, pos) ==
    IF cs = <<>> THEN <<>>
    ELSE LET c == At(Head(cs), pos) IN <<c>> \o Place(Tail(cs), End(c) + 2)

KeyValueExpr(k, v) == [kind |-> "KeyValueExpr", Key |-> k, Value |-> v]
Elt(e) == [kind |-> "Elt", E |-> e]

RECURSIVE PlaceElts(_, _)
PlaceElts(es, pos) ==
    IF es = <<>> THEN <<>>
    ELSE LET e == Head(es) IN
         IF e.kind = "KeyValueExpr"
         THEN LET k == At(e.Key, pos)
                  v == At(e.Value, End(k) + 2)
              IN <<KeyValueExpr(k, v)>> \o PlaceElts(Tail(es), End(v) + 2)
         ELSE LET c == At(e.E, pos)
              IN <<Elt(c)>> \o PlaceElts(Tail(es), End(c) + 2)

\* sequences over S of length at most n
SeqsUpTo(S, n) == UNION {[1..k -> S] : k \in 0..n}

RECURSIVE EltSeqs(_, _)
\* element lists holding at most n candidates
EltSeqs(S, n) ==
    IF n <= 0 THEN {<<>>}
    ELSE {<<>>}
         \cup {<<Elt(c)>> \o rest : c \in S, rest \in EltSeqs(S, n - 1)}
         \cup (IF n < 2 THEN {}
               ELSE {<<KeyValueExpr(k, v)>> \o rest :
                        k \in S, v \in S, rest \in EltSeqs(S, n - 2)})

Callees == {"Func", "Builtin", "Nil"}

\* the candidate expressions a node holds
CandsOf(n) ==
    CASE n.kind = "CallExpr" -> n.Args
      [] n.kind = "ReturnStmt" -> n.Results
      [] n.kind = "SendStmt" -> <<n.Value>>
      [] n.kind = "IndexExpr" -> <<n.Index>>
      [] n.kind = "CompositeLit" ->
            LET cs == elts(n.Elts) IN [i \in 1..Len(cs) |-> cs[i].cand]
      [] OTHER -> <<>>

LastEnd(cs, pos) == IF cs = <<>> THEN pos ELSE End(cs[Len(cs)])

-----------------------------------------------------------------------------
(* The traversal.                                                          *)

NoResult == [result |-> "none", err |-> "none"]

Init ==
    /\ pass = [Path |-> "a"]
    /\ pc = "traversing"
    /\ expr = NoExpr
    /\ ret = NoResult
    /\ arg = NoArg
    /\ node = NoNode
    /\ handed = <<>>
    /\ before = Mark(0, 0, 0)
    /\ diags = <<>>
    /\ logs = <<>>
    /\ visited = 0
    /\ fed = 0
    /\ offset = 1

\* inspect.Preorder calls the handler of node n, which makes the given calls
\* of checkAndReport.
Visit(n, calls) ==
    /\ pc = "traversing"
    /\ visited < MaxNodes
    /\ LET r == checks(pass, calls) IN
       /\ diags' = diags \o r.diags
       /\ logs' = logs \o r.logged
    /\ node' = n
    /\ handed' = handed \o calls
    /\ before' = Mark(Len(diags), Len(logs), Len(handed))
    /\ visited' = visited + 1
    /\ fed' = fed + Len(CandsOf(n))
    /\ offset' = LastEnd(CandsOf(n), offset) + 2
    /\ UNCHANGED <<pass, pc, expr, ret, arg>>

VisitCallExpr ==
    \E callee \in Callees, args \in SeqsUpTo(FileCands(pass), MaxCands - fed) :
        LET n == [kind |-> "CallExpr", Callee |-> callee, Args |-> Place(args, offset)]
        IN Visit(n, processCallExpr(pass, n))

VisitReturnStmt ==
    \E results \in SeqsUpTo(FileCands(pass), MaxCands - fed) :
        LET n == [kind |-> "ReturnStmt", Results |-> Place(results, offset)]
        IN Visit(n, processReturnStmt(pass, n))

VisitSendStmt ==
    /\ fed < MaxCands
    /\ \E value \in FileCands(pass) :
        LET n == [kind |-> "SendStmt", Value |-> At(value, offset)]
        IN Visit(n, processSendStmt(pass, n))

VisitCompositeLit ==
    \E es \in EltSeqs(FileCands(pass), MaxCands - fed) :
        LET n == [kind |-> "CompositeLit", Elts |-> PlaceElts(es, offset)]
        IN Visit(n, processCompositeLit(pass, n))

VisitIndexExpr ==
    /\ fed < MaxCands
    /\ \E index \in FileCands(pass) :
        LET n == [kind |-> "IndexExpr", Index |-> At(index, offset)]
        IN Visit(n, processIndexExpr(pass, n))

\* return nil, nil
Return ==
    /\ pc = "traversing"
    /\ pc' = "returned"
    /\ ret' = [result |-> "nil", err |-> "nil"]
    /\ UNCHANGED <<pass, expr, arg, node, handed, before, diags, logs, visited, fed, offset>>

Next ==
    \/ VisitCallExpr
    \/ VisitReturnStmt
    \/ VisitSendStmt
    \/ VisitCompositeLit
    \/ VisitIndexExpr
    \/ Return

Spec == Init /\ [][Next]_vars

-----------------------------------------------------------------------------
(* Claims about the dispatcher and the whole run, checked under Spec.      *)

\* what the last visited node added
LastCalls == SubSeq(handed, before.handed + 1, Len(handed))
NewDiags == SubSeq(diags, before.diags + 1, Len(diags))
NewLogs == SubSeq(logs, before.logs + 1, Len(logs))

\* the candidate passes every filter of the reporting policy; of the type
\* names of the model, Meters is the exported one
Qualifies(c) ==
    /\ c.Value
    /\ Untyped(c.X)
    /\ c.Type.kind = "Named"
    /\ c.Type.Underlying = "Basic"
    /\ (c.Type.Name = "Meters" \/ c.Type.Pkg = pass.Path)

\* every template ends with its placeholder
Filled(msgfmt, t) ==
    SubSeq(msgfmt, 1, Len(msgfmt) - 2) \o "\"" \o t.Pkg \o "." \o t.Name \o "\""

ExpectedDiag(call) ==
    [Pos |-> call.cand.Pos,
     End |-> call.cand.Pos + Width(call.cand.X),
     Message |-> Filled(call.msgfmt, call.cand.Type)]

RECURSIVE ExpectedDiags(_)
ExpectedDiags(calls) ==
    IF calls = <<>> THEN <<>>
    ELSE (IF Qualifies(Head(calls).cand) THEN <<ExpectedDiag(Head(calls))>> ELSE <<>>)
         \o ExpectedDiags(Tail(calls))

\* C6: every argument of a call is handed to checkAndReport as a call-argument
\* candidate when the callee resolves to a function or method, and none is
\* when it does not; the candidates of return, send, composite-literal and
\* index nodes are handed over with no precondition.
SiteDispatch ==
    /\ node.kind = "CallExpr" =>
          IF node.Callee = "Func"
          THEN LastCalls = [i \in 1..Len(node.Args) |-> [cand |-> node.Args[i], msgfmt |-> MsgCallArg]]
          ELSE LastCalls = <<>> /\ NewDiags = <<>>
    /\ node.kind = "ReturnStmt" =>
          LastCalls = [i \in 1..Len(node.Results) |-> [cand |-> node.Results[i], msgfmt |-> MsgReturn]]
    /\ node.kind = "SendStmt" =>
          LastCalls = <<[cand |-> node.Value, msgfmt |-> MsgSend]>>
    /\ node.kind = "IndexExpr" =>
          LastCalls = <<[cand |-> node.Index, msgfmt |-> MsgIndex]>>
    /\ node.kind = "CompositeLit" => Len(LastCalls) >= Len(node.Elts)

\* a conversion Meters(5): its argument qualifies and is not a candidate
SiteDispatchWitness ==
    /\ node.kind = "CallExpr"
    /\ node.Callee = "Nil"
    /\ Len(node.Args) = 1
    /\ Qualifies(node.Args[1])
    /\ LastCalls = <<>>
    /\ NewDiags = <<>>

RECURSIVE Slots(_)
\* how many candidates a list of elements holds: two for a keyed element
Slots(es) ==
    IF es = <<>> THEN 0
    ELSE (IF Head(es).kind = "KeyValueExpr" THEN 2 ELSE 1) + Slots(Tail(es))

\* C7: of a composite literal, each keyed element submits its key with the key
\* template and then its value with the value template, each other element
\* itself with the element template; n qualifying non-keyed elements yield
\* exactly n diagnostics with the element message.
CompositeLitCandidates ==
    node.kind = "CompositeLit" =>
        /\ Len(LastCalls) = Slots(node.Elts)
        /\ \A i \in 1..Len(node.Elts) :
              LET e == node.Elts[i]
                  k == Slots(SubSeq(node.Elts, 1, i - 1))
              IN IF e.kind = "KeyValueExpr"
                 THEN /\ LastCalls[k + 1] = [cand |-> e.Key, msgfmt |-> MsgKey]
                      /\ LastCalls[k + 2] = [cand |-> e.Value, msgfmt |-> MsgValue]
                 ELSE LastCalls[k + 1] = [cand |-> e.E, msgfmt |-> MsgElement]
        /\ (\A i \in 1..Len(node.Elts) :
                node.Elts[i].kind = "Elt" /\ Qualifies(node.Elts[i].E)) =>
              /\ Len(NewDiags) = Len(node.Elts)
              /\ \A i \in 1..Len(node.Elts) :
                    /\ NewDiags[i].Pos = node.Elts[i].E.Pos
                    /\ NewDiags[i].Message = Filled(MsgElement, node.Elts[i].E.Type)

\* []Meters{5, 5}: two elements, two diagnostics
CompositeLitWitness ==
    /\ node.kind = "CompositeLit"
    /\ Len(node.Elts) = 2
    /\ \A i \in 1..2 : node.Elts[i].kind = "Elt" /\ node.Elts[i].E.X = BasicLit
    /\ Len(NewDiags) = 2
    /\ NewDiags[1].Message
         = "using naked literal as composite literal's element of defined type \"a.Meters\""

\* C8: over a run, the diagnostics are, in the order of the calls of
\* checkAndReport, one for each candidate that passes all the filters and none
\* for any other: each spans its candidate's own source range and carries the
\* site's template filled with the quoted package-qualified type name.
OneCandidateOneDiagnostic == diags = ExpectedDiags(handed)

\* a node with three candidates of which the first and the third, (5), are
\* reported, after an earlier node
OneCandidateOneDiagnosticWitness ==
    /\ visited = 2
    /\ Len(LastCalls) = 3
    /\ LastCalls[2].cand.X = SelectorExpr
    /\ LastCalls[3].cand.X = ParenExpr(BasicLit)
    /\ Len(NewDiags) = 2
    /\ NewDiags[2].End - NewDiags[2].Pos = 3

ImpossibleShape(x) == unwrapParens(x).kind = "SelectorExpr"
Unresolved(x) ==
    /\ unwrapParens(x).kind = "Ident"
    /\ unwrapParens(x).Name \notin {"true", "false", "iota"}
    /\ ScopeLookup(pass.Path, unwrapParens(x).Name).obj # "Const"
NoDiagnosticFor(c) == \A j \in 1..Len(NewDiags) : NewDiags[j].Pos # c.Pos
ShapeViolations ==
    {i \in 1..Len(LastCalls) : LastCalls[i].cand.Value /\ ImpossibleShape(LastCalls[i].cand.X)}
IdentViolations ==
    {i \in 1..Len(LastCalls) : LastCalls[i].cand.Value /\ Unresolved(LastCalls[i].cand.X)}

\* the pass is not stopped: it can return, and returns no error
PassGoesOn ==
    /\ pc \in {"traversing", "returned"}
    /\ pc = "traversing" => ENABLED Return
    /\ pc = "returned" => ret = [result |-> "nil", err |-> "nil"]

====
